---- MODULE Spec2Model ----
(***************************************************************************)
(* Model of src/sniphubProvider.ts: the SniphubProvider snippet catalog    *)
(* (init, createSnippet, getSnippets, getSnippetFiles) and the trigger     *)
(* matcher getTriggerSnippets.                                             *)
(*                                                                         *)
(* A JavaScript string is a sequence of one-character strings, so that     *)
(* endsWith, slice, trim and match are computed character by character.    *)
(***************************************************************************)
EXTENDS Integers, Sequences, FiniteSets, TLC

\* ------------------------------------------------------------------ bounds
MaxLineLen == 4
MaxSnips == 3
MaxItems == 2

\* ----------------------------------------------------------------- strings
WordChars == {"f", "n"}
SpaceChars == {" "}
Chars == WordChars \cup SpaceChars \cup {"/"}

RECURSIVE StringsUpTo(_)
StringsUpTo(n) ==
  IF n = 0 THEN {<<>>}
  ELSE LET shorter == StringsUpTo(n - 1)
       IN shorter \cup {Append(s, c) : s \in {t \in shorter : Len(t) = n - 1}, c \in Chars}

Lines == StringsUpTo(MaxLineLen)

\* JS String.prototype.slice(a, b) with 0 <= a, b (0-based, end exclusive).
Slice(str, a, b) ==
  LET hi == IF b > Len(str) THEN Len(str) ELSE b
  IN IF a >= hi THEN <<>> ELSE SubSeq(str, a + 1, hi)

\* JS String.prototype.endsWith.
EndsWith(str, suffix) ==
  /\ Len(suffix) <= Len(str)
  /\ SubSeq(str, Len(str) - Len(suffix) + 1, Len(str)) = suffix

\* /\s/ on one character.
IsSpace(c) == c \in SpaceChars

\* str.trim() == '' : every character is whitespace.
TrimIsEmpty(str) == \A i \in 1..Len(str) : IsSpace(str[i])

\* document.isWord(ch): the host's word-character classification.
isWord(c) == c \in WordChars

\* ------------------------------------------------------------------ regex
\* A compiled pattern is a literal, optionally anchored at the end of the
\* input ("lit" or "lit$"); NoRegex is the absent field.
NoRegex == [some |-> FALSE, lit |-> <<>>, anchored |-> FALSE]

Regex(lit, anchored) == [some |-> TRUE, lit |-> lit, anchored |-> anchored]

\* The 0-based indices where the pattern matches in str.
MatchIndices(str, re) ==
  {i \in 0..(Len(str) - Len(re.lit)) :
     /\ SubSeq(str, i + 1, i + Len(re.lit)) = re.lit
     /\ (re.anchored => i + Len(re.lit) = Len(str))}

\* str.match(re) for a non-global pattern: the leftmost match, or null.
NoMatch == [found |-> FALSE, index |-> 0, text |-> <<>>]

Match(str, re) ==
  LET idx == MatchIndices(str, re)
  IN IF idx = {} THEN NoMatch
     ELSE LET i == CHOOSE j \in idx : \A k \in idx : j <= k
          IN [found |-> TRUE, index |-> i, text |-> re.lit]

\* --------------------------------------------------------------- snippets
TriggerKinds == {"InWord", "LineBegin", "SpaceBefore", "WordBoundary"}

\* The absent context (undefined is falsy, as is the empty string).
NoContext == ""

\* A Snippet record; lnum and body are carried through unread.
Snippet(filepath, lnum, prefix, regex, kind, context, filetype) ==
  [filepath |-> filepath, lnum |-> lnum, body |-> "body", prefix |-> prefix,
   regex |-> regex, triggerKind |-> kind, context |-> context,
   autoTrigger |-> FALSE, filetype |-> filetype]

\* getMatched(snippet, line): the matched text, or undefined.
Matched(text) == [found |-> TRUE, text |-> text]

NotMatched == [found |-> FALSE, text |-> <<>>]

getMatched(snippet, line) ==
  IF snippet.regex.some
  THEN LET ms == Match(line, snippet.regex)
       IN IF ~ms.found THEN NotMatched ELSE Matched(ms.text)
  ELSE IF ~EndsWith(line, snippet.prefix) THEN NotMatched
       ELSE Matched(snippet.prefix)

\* pre of the filter callback: the line without its last match.length
\* characters.
Pre(line, match) == Slice(line, 0, Len(line) - Len(match))

\* The trigger-kind test of the filter callback, given pre.
KindEligible(kind, pre) ==
  CASE kind = "InWord" -> TRUE
    [] kind = "LineBegin" -> TrimIsEmpty(pre)
    [] kind = "SpaceBefore" -> Len(pre) = 0 \/ IsSpace(pre[Len(pre)])
    [] kind = "WordBoundary" -> Len(pre) = 0 \/ ~isWord(pre[Len(pre)])
    [] OTHER -> FALSE

\* The filter callback of getTriggerSnippets.
FilterTest(s, line, autoTrigger) ==
  /\ ~(autoTrigger /\ ~s.autoTrigger)
  /\ getMatched(s, line).found
  /\ KindEligible(s.triggerKind, Pre(line, getMatched(s, line).text))

\* compare with the two signs exchanged.
compareReversed(a, b) ==
  IF a.context # NoContext /\ b.context = NoContext THEN 1
  ELSE IF b.context # NoContext /\ a.context = NoContext THEN -1
  ELSE 0

\* compare never answering 0 for two snippets without context.
compareNoTie(a, b) == IF a.context # NoContext THEN -1 ELSE 1

\* The comparator handed to snippets.sort.
compare(a, b) ==
  IF a.context # NoContext /\ b.context = NoContext THEN -1
  ELSE IF b.context # NoContext /\ a.context = NoContext THEN 1
  ELSE 0

\* Array.prototype.sort is stable (ECMAScript 2019): insertion from the
\* right, an element moving left past exactly those it compares below.
RECURSIVE InsertSorted(_, _)
InsertSorted(sorted, x) ==
  IF sorted = <<>> THEN <<x>>
  ELSE IF compare(sorted[Len(sorted)], x) > 0
       THEN Append(InsertSorted(SubSeq(sorted, 1, Len(sorted) - 1), x),
                   sorted[Len(sorted)])
       ELSE Append(sorted, x)

RECURSIVE SortSnippets(_)
SortSnippets(snips) ==
  IF snips = <<>> THEN <<>>
  ELSE InsertSorted(SortSnippets(SubSeq(snips, 1, Len(snips) - 1)),
                    snips[Len(snips)])

\* EditCharacter taking the prefix's length for a regex snippet too.
EditCharacterPrefixOnly(s, line, character) == character - Len(s.prefix)

\* The start column of an edit.
EditCharacter(s, line, character) ==
  IF ~s.regex.some THEN character - Len(s.prefix)
  ELSE character - Len(Match(line, s.regex).text)

\* The SnippetEdit pushed for an included snippet.
MakeEdit(s, line, character) ==
  [start |-> EditCharacter(s, line, character), end |-> character,
   prefix |-> s.prefix, location |-> s.filepath, context |-> s.context]

\* StopWalk without the break.
StopWalkNever(hasContext) == FALSE

\* The walk stops at a snippet without context once a context has passed.
StopWalk(hasContext) == hasContext

\* ------------------------------------------------- getTriggerSnippets call
\* One call of getTriggerSnippets: input is what getSnippets returned,
\* snippets the filtered and sorted candidates, i the walk's position,
\* edits the local array and returned the value the promise resolved with.
\* History of the call: checked lists the snippets (by filepath) whose
\* checkContext call was issued, answered counts the checks that resolved,
\* rejected tells that a check rejected, seen is the catalog field when the
\* call started and moved tells that a check resolved on another catalog.
IdleCall ==
  [pc |-> "idle", line |-> <<>>, character |-> 0, autoTrigger |-> FALSE,
   input |-> <<>>, snippets |-> <<>>, i |-> 0, hasContext |-> FALSE,
   edits |-> <<>>, returned |-> <<>>, checked |-> <<>>, answered |-> 0,
   rejected |-> FALSE, seen |-> [assigned |-> FALSE, items |-> <<>>],
   moved |-> FALSE]

\* return edits.
ReturnEdits(c) == [c EXCEPT !.pc = "done", !.returned = c.edits]

\* The for loop from position c.i up to the next await or the return.
RECURSIVE RunWalk(_)
RunWalk(c) ==
  IF c.i > Len(c.snippets) THEN ReturnEdits(c)
  ELSE LET s == c.snippets[c.i]
       IN IF s.context # NoContext
          THEN [c EXCEPT !.pc = "checking", !.checked = Append(@, s.filepath)]
          ELSE IF StopWalk(c.hasContext) THEN ReturnEdits(c)
          ELSE RunWalk([c EXCEPT !.i = c.i + 1,
                                 !.edits = Append(c.edits, MakeEdit(s, c.line, c.character))])

\* Resume with break in place of continue when the check fails.
ResumeBreak(c, valid) ==
  LET s == c.snippets[c.i]
  IN IF ~valid THEN ReturnEdits([c EXCEPT !.answered = @ + 1])
     ELSE RunWalk([c EXCEPT !.i = c.i + 1, !.hasContext = TRUE, !.answered = @ + 1,
                            !.edits = Append(c.edits, MakeEdit(s, c.line, c.character))])

\* The loop body after await this.checkContext(s.context) gave valid.
Resume(c, valid) ==
  LET s == c.snippets[c.i]
  IN IF ~valid THEN RunWalk([c EXCEPT !.i = c.i + 1, !.answered = @ + 1])
     ELSE RunWalk([c EXCEPT !.i = c.i + 1, !.hasContext = TRUE, !.answered = @ + 1,
                            !.edits = Append(c.edits, MakeEdit(s, c.line, c.character))])

\* Reject with the rejected check taken as a failed one.
RejectAsInvalid(c) == [Resume(c, FALSE) EXCEPT !.rejected = TRUE]

\* await this.checkContext(s.context) rejected: the call throws and returns
\* nothing.
Reject(c) == [c EXCEPT !.pc = "threw", !.rejected = TRUE]

\* The candidates in the order getSnippets gave them.
FilterSnippets(snips, line, autoTrigger) ==
  SelectSeq(snips, LAMBDA s : FilterTest(s, line, autoTrigger))

\* StartCall without the early return on an automatic trigger.
StartCallNoAutoReturn(snips, line, character, autoTrigger) ==
  LET base == [IdleCall EXCEPT !.line = line, !.character = character,
                               !.autoTrigger = autoTrigger, !.input = snips]
  IN IF Len(line) = 0 THEN ReturnEdits(base)
     ELSE RunWalk([base EXCEPT
            !.snippets = SortSnippets(FilterSnippets(snips, line, autoTrigger)),
            !.i = 1])

\* getTriggerSnippets from its entry to the first await or the return,
\* given the snippets this.getSnippets(document.filetype) yields.
StartCall(snips, line, character, autoTrigger) ==
  LET base == [IdleCall EXCEPT !.line = line, !.character = character,
                               !.autoTrigger = autoTrigger, !.input = snips]
  IN IF autoTrigger THEN ReturnEdits(base)
     ELSE IF Len(line) = 0 THEN ReturnEdits(base)
     ELSE RunWalk([base EXCEPT
            !.snippets = SortSnippets(FilterSnippets(snips, line, autoTrigger)),
            !.i = 1])

\* ---------------------------------------------------------------- catalog
\* A remote record (SnippetContent).  The string fields read from a value
\* that has no such property are undefined.
UndefinedName == <<"undefined">>

UndefinedId == 0

Item(id, name, language) ==
  [id |-> id, name |-> name, language |-> language, content |-> "body"]

\* What createSnippet's onEnd resolves with: the array of response chunks,
\* unparsed, so none of the SnippetContent properties is defined on it.
RawBody ==
  [id |-> UndefinedId, name |-> UndefinedName, language |-> "undefined",
   content |-> "undefined"]

ItemNames == {<<"f", "n">>, <<"n">>}

FileTypes == {"go", "typescriptreact"}

Languages == {"go", "typescript", "all"}

Includes(seq, x) == \E i \in 1..Len(seq) : seq[i] = x

\* BaseProvider.getFiletypes: the file type and its aliases.
getFiletypes(filetype) ==
  IF filetype = "typescriptreact" THEN <<"typescriptreact", "typescript">>
  ELSE <<filetype>>

\* mapItems over the catalog items.
mapItems(items) ==
  [k \in 1..Len(items) |->
     Snippet(items[k].id, k - 1, items[k].name, NoRegex, "WordBoundary",
             NoContext, items[k].language)]

\* getSnippets(filetype) over the catalog items.
getSnippets(items, filetype) ==
  SelectSeq(mapItems(items),
            LAMBDA snippet : Includes(getFiletypes(filetype), snippet.filetype))

\* getSnippetFiles(filetype) over the catalog items: the ids.
getSnippetFiles(items, filetype) ==
  LET filetypes == Append(getFiletypes(filetype), "all")
      picked == SelectSeq(items, LAMBDA snippet : Includes(filetypes, snippet.language))
  IN [k \in 1..Len(picked) |-> picked[k].id]

\* Exists with the file type comparison negated.
ExistsOtherFiletype(items, name, filetype) ==
  \E k \in 1..Len(items) :
     mapItems(items)[k].prefix = name /\ mapItems(items)[k].filetype # filetype

\* The duplicate test of createSnippet.
Exists(items, name, filetype) ==
  \E k \in 1..Len(items) :
     mapItems(items)[k].prefix = name /\ mapItems(items)[k].filetype = filetype

\* ------------------------------------------------------------------ state
VARIABLES
  sniphubItems,  \* the field: assigned or not yet, and its items
  remote,        \* the records the remote store holds
  loader,        \* a standalone init() call
  flows,         \* the createSnippet flows
  call,          \* the getTriggerSnippets call
  last           \* the last getSnippets / getSnippetFiles call and its outcome

vars == <<sniphubItems, remote, loader, flows, call, last>>

Flows == {"f1", "f2"}

\* posts counts the POSTs the flow has sent, reply is how its POST was
\* answered: "error" (network error or a status outside 2xx), "record"
\* (2xx, the created record as JSON) or "garbage" (2xx, a body that is no
\* snippet record).
IdleFlow ==
  [pc |-> "idle", name |-> <<>>, ft |-> "", posts |-> 0, message |-> FALSE,
   appended |-> FALSE, reply |-> ""]

Replies == {"error", "record", "garbage"}

NoRead == [op |-> "none", ft |-> "", threw |-> FALSE, snippets |-> <<>>, ids |-> <<>>]

RECURSIVE SeqsUpTo(_, _)
SeqsUpTo(S, n) ==
  IF n = 0 THEN {<<>>}
  ELSE LET shorter == SeqsUpTo(S, n - 1)
       IN shorter \cup {Append(s, x) : s \in {t \in shorter : Len(t) = n - 1}, x \in S}

\* The store's records carry the ids the store gave them: 1, 2, ...
WithIds(shapes) ==
  [k \in 1..Len(shapes) |-> Item(k, shapes[k][1], shapes[k][2])]

Init ==
  /\ sniphubItems = [assigned |-> FALSE, items |-> <<>>]
  /\ remote \in {WithIds(s) : s \in SeqsUpTo(ItemNames \X Languages, MaxItems - 1)}
  /\ loader = [pc |-> "idle", outcome |-> "none"]
  /\ flows = [f \in Flows |-> IdleFlow]
  /\ call = IdleCall
  /\ last = NoRead

\* ------------------------------------------------------------------- init
\* AfterLoad emptying the catalog when the load fails.
AfterLoadResetOnFailure(catalog, response, ok) ==
  IF ok THEN [assigned |-> TRUE, items |-> response]
  ELSE [assigned |-> TRUE, items |-> <<>>]

\* The field after init's await: on success it is assigned the response's
\* snippets; on failure init has thrown before the assignment.
AfterLoad(catalog, response, ok) ==
  IF ok THEN [assigned |-> TRUE, items |-> response] ELSE catalog

\* A read call sorting the catalog's own array in place.
CatalogSortedInPlace(catalog) ==
  [catalog EXCEPT !.items = [k \in 1..Len(@) |-> @[Len(@) + 1 - k]]]

\* The field after getSnippets, getSnippetFiles or getTriggerSnippets: map
\* and filter build new arrays and the sort works on the filtered one.
CatalogAfterRead(catalog) == catalog

\* init(): the GET request leaves.
InitStart ==
  /\ loader.pc = "idle"
  /\ loader' = [loader EXCEPT !.pc = "fetching"]
  /\ UNCHANGED <<sniphubItems, remote, flows, call, last>>

\* The GET is answered: loadAllSnippets resolves and the field is assigned,
\* or it rejects and init throws before the assignment.
InitDone(ok) ==
  /\ loader.pc = "fetching"
  /\ loader' = [pc |-> "idle", outcome |-> IF ok THEN "ok" ELSE "failed"]
  /\ sniphubItems' = AfterLoad(sniphubItems, remote, ok)
  /\ UNCHANGED <<remote, flows, call, last>>

\* ---------------------------------------------------------- createSnippet
FlowsActive == Cardinality({f \in Flows : flows[f].pc # "idle"})

\* createSnippet up to the name prompt.
CreateStart(f, ft) ==
  /\ flows[f].pc = "idle"
  /\ Len(remote) + FlowsActive < MaxItems
  /\ flows' = [flows EXCEPT ![f] = [IdleFlow EXCEPT !.pc = "prompt", !.ft = ft]]
  /\ UNCHANGED <<sniphubItems, remote, loader, call, last>>

\* The prompt is answered: no name returns, a name calls init().
CreateNamed(f, name) ==
  /\ flows[f].pc = "prompt"
  /\ flows' = [flows EXCEPT ![f] =
        IF name = <<>> THEN [@ EXCEPT !.pc = "cancelled"]
        ELSE [@ EXCEPT !.pc = "fetching", !.name = name]]
  /\ UNCHANGED <<sniphubItems, remote, loader, call, last>>

\* The reinitialising GET is answered; on success the duplicate test runs
\* and either the message is shown or the POST leaves.
CreateFetched(f, ok) ==
  /\ flows[f].pc = "fetching"
  /\ sniphubItems' = AfterLoad(sniphubItems, remote, ok)
  /\ flows' = [flows EXCEPT ![f] =
        IF ~ok THEN [@ EXCEPT !.pc = "failed"]
        ELSE IF Exists(remote, flows[f].name, flows[f].ft)
             THEN [@ EXCEPT !.pc = "duplicate", !.message = TRUE]
             ELSE [@ EXCEPT !.pc = "posting", !.posts = @ + 1]]
  /\ UNCHANGED <<remote, loader, call, last>>

\* AfterPost sending the POST again when it failed.
AfterPostRetry(fl, reply) ==
  IF reply = "error" THEN [fl EXCEPT !.posts = @ + 1, !.reply = reply]
  ELSE [fl EXCEPT !.pc = "created", !.appended = TRUE, !.reply = reply]

\* The flow after its POST is answered: promisifyHttpRequest rejects on an
\* error and createSnippet throws; on 2xx onEnd resolves with the chunks,
\* whatever they hold, and they are pushed.
AfterPost(fl, reply) ==
  IF reply = "error" THEN [fl EXCEPT !.pc = "failed", !.reply = reply]
  ELSE [fl EXCEPT !.pc = "created", !.appended = TRUE, !.reply = reply]

\* The POST is answered: 2xx resolves with the response chunks, which are
\* pushed onto the catalog; anything else rejects.
CreatePosted(f, reply) ==
  /\ flows[f].pc = "posting"
  /\ flows' = [flows EXCEPT ![f] = AfterPost(@, reply)]
  /\ IF ~flows'[f].appended
     THEN UNCHANGED <<sniphubItems, remote>>
     ELSE /\ remote' = Append(remote, Item(Len(remote) + 1, flows[f].name, flows[f].ft))
          /\ sniphubItems' = [sniphubItems EXCEPT !.items = Append(@, RawBody)]
  /\ UNCHANGED <<loader, call, last>>

\* createSnippet's promise has settled; the flow may run again.
CreateReturn(f) ==
  /\ flows[f].pc \in {"cancelled", "duplicate", "created", "failed"}
  /\ flows' = [flows EXCEPT ![f] = IdleFlow]
  /\ UNCHANGED <<sniphubItems, remote, loader, call, last>>

\* ------------------------------------------------------------ read calls
\* One read call at a time is observed: last and call hold it until it
\* has returned.
\* getSnippets(filetype): mapping an unassigned field throws.
GetSnippets(ft) ==
  /\ last.op = "none" /\ call.pc = "idle"
  /\ last' = IF sniphubItems.assigned
             THEN [NoRead EXCEPT !.op = "getSnippets", !.ft = ft,
                                 !.snippets = getSnippets(sniphubItems.items, ft)]
             ELSE [NoRead EXCEPT !.op = "getSnippets", !.ft = ft, !.threw = TRUE]
  /\ sniphubItems' = CatalogAfterRead(sniphubItems)
  /\ UNCHANGED <<remote, loader, flows, call>>

\* getSnippetFiles(filetype): iterating an unassigned field throws.
GetSnippetFiles(ft) ==
  /\ last.op = "none" /\ call.pc = "idle"
  /\ last' = IF sniphubItems.assigned
             THEN [NoRead EXCEPT !.op = "getSnippetFiles", !.ft = ft,
                                 !.ids = getSnippetFiles(sniphubItems.items, ft)]
             ELSE [NoRead EXCEPT !.op = "getSnippetFiles", !.ft = ft, !.threw = TRUE]
  /\ sniphubItems' = CatalogAfterRead(sniphubItems)
  /\ UNCHANGED <<remote, loader, flows, call>>

\* The documents a request of the provider is made on.
RequestLines == {<<>>, <<" ", " ", "f", "n">>, <<"f", "n", " ">>}

\* getTriggerSnippets(document, position, autoTrigger) on the catalog.
TriggerRequest(ft, line, character, autoTrigger) ==
  /\ last.op = "none" /\ call.pc = "idle"
  /\ call' = IF ~autoTrigger /\ Len(line) # 0 /\ ~sniphubItems.assigned
             THEN [IdleCall EXCEPT !.pc = "threw", !.line = line,
                                   !.character = character, !.seen = sniphubItems]
             ELSE [StartCall(IF sniphubItems.assigned
                             THEN getSnippets(sniphubItems.items, ft) ELSE <<>>,
                             line, character, autoTrigger)
                     EXCEPT !.seen = sniphubItems]
  /\ sniphubItems' = CatalogAfterRead(sniphubItems)
  /\ UNCHANGED <<remote, loader, flows, last>>

\* WalkList reading the rest of the candidates from the catalog again.
WalkListReread(c, catalog) ==
  SubSeq(c.snippets, 1, c.i)
    \o SortSnippets(FilterSnippets(mapItems(catalog.items), c.line, c.autoTrigger))

\* The array the for loop goes on with after an await: the local snippets
\* filtered and sorted at the call's start, whatever the catalog is now.
WalkList(c, catalog) == c.snippets

\* await this.checkContext(s.context) resolves.
ContextResolved(valid) ==
  /\ call.pc = "checking"
  /\ call' = [Resume([call EXCEPT !.snippets = WalkList(call, sniphubItems)], valid)
               EXCEPT !.moved = @ \/ sniphubItems # call.seen]
  /\ UNCHANGED <<sniphubItems, remote, loader, flows, last>>

\* await this.checkContext(s.context) rejects: the call throws.
ContextRejected ==
  /\ call.pc = "checking"
  /\ call' = Reject(call)
  /\ UNCHANGED <<sniphubItems, remote, loader, flows, last>>

\* The call's promise has settled.
TriggerReturn ==
  /\ call.pc \in {"done", "threw"}
  /\ call' = IdleCall
  /\ UNCHANGED <<sniphubItems, remote, loader, flows, last>>

\* getSnippets / getSnippetFiles has returned.
ReadReturn ==
  /\ last.op # "none"
  /\ last' = NoRead
  /\ UNCHANGED <<sniphubItems, remote, loader, flows, call>>

\* ------------------------------------------------------------ the provider
\* The provider with the createSnippet flows F.
Provider(F) ==
  \/ InitStart
  \/ \E ok \in BOOLEAN : InitDone(ok)
  \/ \E f \in F, ft \in FileTypes : CreateStart(f, ft)
  \/ \E f \in F, name \in ItemNames \cup {<<>>} : CreateNamed(f, name)
  \/ \E f \in F, ok \in BOOLEAN : CreateFetched(f, ok)
  \/ \E f \in F, reply \in Replies : CreatePosted(f, reply)
  \/ \E f \in F : CreateReturn(f)
  \/ \E ft \in FileTypes : GetSnippets(ft)
  \/ \E ft \in FileTypes : GetSnippetFiles(ft)
  \/ ReadReturn
  \/ \E ft \in FileTypes, line \in RequestLines, autoTrigger \in BOOLEAN :
        \E character \in 0..Len(line) : TriggerRequest(ft, line, character, autoTrigger)
  \/ TriggerReturn

Next == Provider({"f1"})

Spec == Init /\ [][Next]_vars

\* Two createSnippet calls in progress at once: each await of createSnippet
\* (prompt, init, POST) lets the other call run.
NextRace ==
  \/ \E f \in Flows, ft \in FileTypes : CreateStart(f, ft)
  \/ \E f \in Flows, name \in ItemNames \cup {<<>>} : CreateNamed(f, name)
  \/ \E f \in Flows, ok \in BOOLEAN : CreateFetched(f, ok)
  \/ \E f \in Flows, reply \in Replies : CreatePosted(f, reply)
  \/ \E f \in Flows : CreateReturn(f)

SpecRace == Init /\ [][NextRace]_vars

\* ------------------------------------------------- the matcher on Snippet[]
\* getTriggerSnippets is a function of the line, the position, the flag and
\* the Snippet[] that getSnippets returns.  mapItems only builds snippets
\* with a prefix, WordBoundary and no context; the specifications below run
\* the same handler on every shape the Snippet type allows.
NumberSnippets(shapes) ==
  [k \in 1..Len(shapes) |-> [shapes[k] EXCEPT !.filepath = k, !.lnum = k - 1]]

\* getTriggerSnippets(document, position, autoTrigger) with getSnippets
\* returning snips.
TriggerCall(snips, line, character, autoTrigger) ==
  /\ call.pc = "idle"
  /\ call' = [StartCall(snips, line, character, autoTrigger) EXCEPT !.seen = sniphubItems]
  /\ UNCHANGED <<sniphubItems, remote, loader, flows, last>>

InitMatcher ==
  /\ sniphubItems = [assigned |-> FALSE, items |-> <<>>]
  /\ remote = <<>>
  /\ loader = [pc |-> "idle", outcome |-> "none"]
  /\ flows = [f \in Flows |-> IdleFlow]
  /\ call = IdleCall
  /\ last = NoRead

\* One snippet of any shape, every line and every position in it.
TriggerPrefixes == {<<"f", "n">>, <<"/", "/">>}

TriggerRegexes == {NoRegex, Regex(<<"n">>, FALSE), Regex(<<"n">>, TRUE)}

TriggerShapes ==
  {[Snippet(1, 0, pr[1], pr[2], k, c, "go") EXCEPT !.autoTrigger = a] :
     pr \in TriggerPrefixes \X TriggerRegexes, k \in TriggerKinds,
     c \in {NoContext, "c1"}, a \in BOOLEAN}

NextTrigger ==
  \/ /\ call.pc = "idle"
     /\ \E s \in TriggerShapes, line \in Lines, autoTrigger \in BOOLEAN :
          \E character \in 0..Len(line) : TriggerCall(<<s>>, line, character, autoTrigger)
  \/ \E valid \in BOOLEAN : ContextResolved(valid)
  \/ ContextRejected
  \/ TriggerReturn

SpecTrigger == InitMatcher /\ [][NextTrigger]_vars

\* Up to MaxSnips snippets, with and without context, the cursor at the end
\* of the line.
WalkShapes ==
  {Snippet(1, 0, pk[1], NoRegex, pk[2], c, "go") :
     pk \in {<<<<"f", "n">>, "WordBoundary">>, <<<<"n">>, "InWord">>,
             <<<<"n">>, "WordBoundary">>},
     c \in {NoContext, "c1", "c2"}}

WalkLines == {<<"f", "n">>, <<" ", "n">>, <<"n", " ">>}

NextWalk ==
  \/ /\ call.pc = "idle"
     /\ \E shapes \in SeqsUpTo(WalkShapes, MaxSnips), line \in WalkLines :
          TriggerCall(NumberSnippets(shapes), line, Len(line), FALSE)
  \/ \E valid \in BOOLEAN : ContextResolved(valid)
  \/ ContextRejected
  \/ TriggerReturn

SpecWalk == InitMatcher /\ [][NextWalk]_vars

\* getTriggerSnippets suspended at its context checks while init and
\* createSnippet run: one or two candidates for the line "fn", one of them
\* at least with a context.
InterleaveShapes ==
  {Snippet(1, 0, <<"f", "n">>, NoRegex, "WordBoundary", c, "go") : c \in {NoContext, "c1"}}

InterleaveInputs ==
  {shapes \in SeqsUpTo(InterleaveShapes, 2) :
     \E k \in 1..Len(shapes) : shapes[k].context # NoContext}

NextInterleave ==
  \/ /\ call.pc = "idle"
     /\ \E shapes \in InterleaveInputs :
          TriggerCall(NumberSnippets(shapes), <<"f", "n">>, 2, FALSE)
  \/ \E valid \in BOOLEAN : ContextResolved(valid)
  \/ ContextRejected
  \/ TriggerReturn
  \/ InitStart
  \/ \E ok \in BOOLEAN : InitDone(ok)
  \/ CreateStart("f1", "go")
  \/ \E name \in ItemNames \cup {<<>>} : CreateNamed("f1", name)
  \/ \E ok \in BOOLEAN : CreateFetched("f1", ok)
  \/ \E reply \in Replies : CreatePosted("f1", reply)
  \/ CreateReturn("f1")

SpecInterleave == Init /\ [][NextInterleave]_vars

\* ================================================================= claims
\* The part of the line before the cursor.
TextBeforeCursor == Slice(call.line, 0, call.character)

\* An explicit request on one snippet has run its filter.
Filtered ==
  call.pc \in {"checking", "done", "threw"} /\ ~call.autoTrigger /\ Len(call.input) = 1

\* C1: in an explicit request, a snippet with a literal prefix (InWord, so
\* that matching alone decides) is a candidate if and only if the text of
\* the line before the cursor ends with the prefix, at every cursor offset.
C1_PrefixMatchesBeforeCursor ==
  (Filtered /\ ~call.input[1].regex.some /\ call.input[1].triggerKind = "InWord")
    => (Len(call.snippets) = 1 <=> EndsWith(TextBeforeCursor, call.input[1].prefix))

\* The text of the line that precedes the matched substring.
TextBeforeMatch(s, line) ==
  IF s.regex.some THEN Slice(line, 0, Match(line, s.regex).index)
  ELSE Slice(line, 0, Len(line) - Len(s.prefix))

FnExample ==
  /\ call.pc = "done" /\ ~call.autoTrigger
  /\ call.input = <<Snippet(1, 0, <<"f", "n">>, NoRegex, "WordBoundary", NoContext, "go")>>
  /\ call.line = <<" ", " ", "f", "n">> /\ call.character = 4

\* C9: every edit starts at the cursor offset minus the length of the
\* matched trigger text and ends at the cursor offset; the example request
\* yields exactly one edit, columns 2 to 4.
C9_EditRange ==
  /\ (call.pc # "idle" /\ Len(call.input) = 1) =>
        \A k \in 1..Len(call.edits) :
           /\ call.edits[k].end = call.character
           /\ call.edits[k].start =
                call.character - Len(getMatched(call.input[1], call.line).text)
  /\ FnExample =>
        /\ Len(call.edits) = 1
        /\ call.edits[1].start = 2 /\ call.edits[1].end = 4

\* C9 witness: an edit of a regex snippet, whose matched text is not its
\* prefix, has been returned.
C9_Witness ==
  /\ call.pc = "done" /\ Len(call.edits) = 1 /\ Len(call.input) = 1
  /\ call.input[1].regex.some
  /\ Len(call.input[1].prefix) # Len(call.input[1].regex.lit)

HasContext(s) == s.context # NoContext

\* The candidates of the call in the order getSnippets gave them.
Candidates == FilterSnippets(call.input, call.line, call.autoTrigger)

Locations(seq) == [k \in 1..Len(seq) |-> seq[k].filepath]

EditLocations == [k \in 1..Len(call.edits) |-> call.edits[k].location]

\* C4: when the returned edits include one of a snippet with a context, they
\* include none of a snippet without a context.
C4_ContextExcludesPlain ==
  call.pc = "done" =>
    ((\E k \in 1..Len(call.edits) : call.edits[k].context # NoContext)
       => \A k \in 1..Len(call.edits) : call.edits[k].context # NoContext)

\* C4 witness: a context passed while a candidate without context matched
\* too.
C4_Witness ==
  /\ call.pc = "done" /\ call.hasContext /\ Len(call.edits) > 0
  /\ \E k \in 1..Len(call.snippets) : ~HasContext(call.snippets[k])

\* C5: when every candidate with a context fails its check, the edits are
\* those of all the candidates without context, in their original order.
C5_FailedContextIsSkipped ==
  (call.pc = "done" /\ ~call.autoTrigger /\ Len(call.line) > 0 /\ ~call.hasContext)
    => EditLocations = Locations(SelectSeq(Candidates, LAMBDA s : ~HasContext(s)))

\* C5 witness: a candidate with a context failed its check and two
\* candidates without context were returned.
C5_Witness ==
  /\ call.pc = "done" /\ ~call.hasContext /\ Len(call.edits) >= 2
  /\ Cardinality({k \in 1..Len(call.snippets) : HasContext(call.snippets[k])}) >= 1

\* C10: the walk's order is the candidates with a context, in catalog
\* order, followed by those without, in catalog order; from A (none),
\* B (context), C (none) it is B, A, C.
C10_StablePartition ==
  (call.pc \in {"checking", "done", "threw"} /\ Len(call.line) > 0)
    => /\ call.snippets = SelectSeq(Candidates, HasContext)
                            \o SelectSeq(Candidates, LAMBDA s : ~HasContext(s))
       /\ (Len(Candidates) = 3 /\ Locations(Candidates) = <<1, 2, 3>>
            /\ ~HasContext(Candidates[1]) /\ HasContext(Candidates[2])
            /\ ~HasContext(Candidates[3]))
           => Locations(call.snippets) = <<2, 1, 3>>

\* C10 witness: the walk of B, A, C.
C10_Witness ==
  /\ call.pc \in {"checking", "done"}
  /\ Len(call.snippets) = 3 /\ Locations(call.snippets) = <<2, 1, 3>>
  /\ HasContext(call.snippets[1]) /\ ~HasContext(call.snippets[2])

\* C2: once a createSnippet flow has had its POST answered with 2xx, the
\* catalog yields, for the flow's file type, a snippet whose prefix is the
\* entered name.
C2_CreatedIsDiscoverable ==
  \A f \in Flows :
     flows[f].pc = "created" =>
       \E k \in 1..Len(getSnippets(sniphubItems.items, flows[f].ft)) :
          getSnippets(sniphubItems.items, flows[f].ft)[k].prefix = flows[f].name

\* C3: while no init has succeeded (none was called, or the load failed),
\* getSnippets, getSnippetFiles and getTriggerSnippets return an empty
\* result and do not fail.
C3_UnloadedReadsReturnEmpty ==
  ~sniphubItems.assigned =>
    /\ last.op # "none" => (~last.threw /\ last.snippets = <<>> /\ last.ids = <<>>)
    /\ call.pc # "idle" => (call.pc = "done" /\ call.edits = <<>>)

\* The catalog holds a record of this name and file type.
Duplicate(items, name, ft) ==
  \E k \in 1..Len(items) : items[k].name = name /\ items[k].language = ft

\* C6: when the reinitialising fetch of a createSnippet flow returns a
\* catalog that holds the entered name for the document's file type, the
\* flow sends no POST, shows the message and appends nothing: the catalog
\* stays the fetched one and the store is not changed; and a flow that
\* ended on the duplicate message has sent no POST and appended nothing.
C6_DuplicateSendsNoPost ==
  /\ [][\A f \in Flows :
          (/\ flows[f].pc = "fetching" /\ flows'[f].pc # "failed"
           /\ flows'[f].pc # "fetching"
           /\ Duplicate(remote, flows[f].name, flows[f].ft))
            => /\ flows'[f].pc = "duplicate"
               /\ flows'[f].posts = 0 /\ flows'[f].message
               /\ sniphubItems'.items = remote /\ remote' = remote]_vars
  /\ [](\A f \in Flows :
          flows[f].pc = "duplicate" =>
            (flows[f].posts = 0 /\ flows[f].message /\ ~flows[f].appended))

\* C6 witness: a flow has ended on the duplicate message.
C6_Witness ==
  \E f \in Flows :
     /\ flows[f].pc = "duplicate" /\ flows[f].message
     /\ Duplicate(sniphubItems.items, flows[f].name, flows[f].ft)

\* C7: getSnippets(ft) selects exactly the catalog records whose language
\* is ft, "all" or an alias of ft, and getSnippetFiles(ft) lists the ids of
\* the same records.
C7_FiletypeSelection ==
  sniphubItems.assigned =>
    \A ft \in FileTypes :
       LET items == sniphubItems.items
           wanted == {k \in 1..Len(items) :
                        \/ items[k].language = ft
                        \/ items[k].language = "all"
                        \/ Includes(getFiletypes(ft), items[k].language)}
           got == getSnippets(items, ft)
           files == getSnippetFiles(items, ft)
       IN /\ {got[k].lnum + 1 : k \in 1..Len(got)} = wanted
          /\ {got[k].filepath : k \in 1..Len(got)} = {files[k] : k \in 1..Len(files)}

\* C13: an automatic trigger, or an empty line, returns no edits and issues
\* no context check.
C13_AutoOrEmptyReturnsNothing ==
  (call.pc # "idle" /\ (call.autoTrigger \/ Len(call.line) = 0))
    => (call.pc = "done" /\ call.returned = <<>> /\ call.checked = <<>>)

\* C13 witness: an automatic trigger on a line that ends with the prefix of
\* an auto-trigger snippet carrying a context.
C13_Witness ==
  /\ call.pc = "done" /\ call.autoTrigger /\ Len(call.input) = 1
  /\ call.input[1].autoTrigger /\ HasContext(call.input[1])
  /\ call.input[1].triggerKind = "InWord"
  /\ getMatched(call.input[1], call.line).found

\* The candidates with a context, in the walk's order.
ContextLocations == Locations(SelectSeq(call.snippets, HasContext))

\* C15: the context checks are issued in the walk's order, each candidate
\* with a context at most once, the next one only after the last was
\* answered; no candidate without context is taken before every candidate
\* with a context has been checked, and a call that returns has checked
\* each of them exactly once.
C15_ChecksInOrderOneAtATime ==
  call.pc # "idle" =>
    /\ Len(call.checked) <= Len(ContextLocations)
    /\ call.checked = SubSeq(ContextLocations, 1, Len(call.checked))
    /\ Len(call.checked) <= call.answered + 1
    /\ (call.pc = "checking" => Len(call.checked) = call.answered + 1)
    /\ (\A k \in 1..Len(call.edits) :
          call.edits[k].context = NoContext => call.checked = ContextLocations)
    /\ (call.pc = "done" =>
          (call.checked = ContextLocations /\ call.answered = Len(call.checked)))

\* C15 witness: two checks failed in turn and a candidate without context
\* was then returned.
C15_Witness ==
  /\ call.pc = "done" /\ Len(call.checked) = 2 /\ call.answered = 2
  /\ Len(call.returned) = 1 /\ call.returned[1].context = NoContext

\* C17: when a context check rejects, the call throws, returns no edits
\* (the ones already pushed are lost) and issues no further check.
C17_RejectedCheckAborts ==
  call.rejected =>
    /\ call.pc = "threw" /\ call.returned = <<>>
    /\ Len(call.checked) = call.answered + 1

\* C17 witness: the second check rejected after the first had passed and its
\* edit been pushed, a third candidate with a context still unchecked.
C17_Witness ==
  /\ call.rejected /\ call.pc = "threw"
  /\ Len(call.edits) = 1 /\ Len(call.checked) = 2
  /\ Len(ContextLocations) = 3

\* C18: every edit lies within the line, 0 <= start <= end = cursor <= line
\* length, and the line's text from start to end is the matched trigger
\* text.
C18_EditRangeWithinLine ==
  (call.pc # "idle" /\ Len(call.input) = 1) =>
    \A k \in 1..Len(call.edits) :
       /\ 0 <= call.edits[k].start
       /\ call.edits[k].start <= call.edits[k].end
       /\ call.edits[k].end = call.character
       /\ call.character <= Len(call.line)
       /\ Slice(call.line, call.edits[k].start, call.edits[k].end)
            = getMatched(call.input[1], call.line).text

\* C11: a createSnippet whose POST is answered 2xx with a body that is no
\* snippet record fails, and nothing is appended to the catalog.
C11_UnparseableReplyFails ==
  \A f \in Flows :
     flows[f].reply = "garbage" => (flows[f].pc = "failed" /\ ~flows[f].appended)

\* C12: when the POST of a createSnippet fails, createSnippet fails, it has
\* sent exactly one POST, and the step leaves the catalog as it was.
C12_FailedPostPropagates ==
  /\ [](\A f \in Flows :
          flows[f].reply = "error" =>
            (flows[f].pc = "failed" /\ flows[f].posts = 1 /\ ~flows[f].appended))
  /\ [][\A f \in Flows :
          (flows[f].reply # "error" /\ flows'[f].reply = "error")
            => sniphubItems' = sniphubItems]_vars

\* C12 witness: a flow whose POST failed, on a loaded catalog.
C12_Witness ==
  \E f \in Flows :
     /\ flows[f].pc = "failed" /\ flows[f].reply = "error" /\ flows[f].posts = 1
     /\ sniphubItems.assigned

C20_ReadsLeaveCatalog ==
  [][(call' # call \/ last' # last) => sniphubItems' = sniphubItems]_vars

\* C20 witness: getTriggerSnippets has returned an edit from a catalog of
\* two records.
C20_Witness ==
  /\ call.pc = "done" /\ Len(call.returned) >= 1
  /\ Len(sniphubItems.items) >= 2
  /\ sniphubItems.items[1] # sniphubItems.items[2]

\* C14: no two createSnippet flows in progress have both sent a POST for
\* the same name and file type.
C14_NoTwoPostsForSameName ==
  \A f, g \in Flows :
     (f # g /\ flows[f].posts >= 1 /\ flows[g].posts >= 1)
       => ~(flows[f].name = flows[g].name /\ flows[f].ft = flows[g].ft)

\* The position in the walk's list of the snippet the k-th edit was made for.
EditPosition(k) ==
  CHOOSE j \in 1..Len(call.snippets) : call.snippets[j].filepath = call.edits[k].location

\* C19: the candidates a call walks are the ones filtered and sorted from
\* what getSnippets gave when the call started, its edits are edits of
\* those candidates in that order, and a change of the catalog while the
\* call waits for a context check changes nothing of the call.
C19_EditsFixedAtCallStart ==
  /\ []((call.pc \in {"checking", "done", "threw"} /\ ~call.autoTrigger /\ Len(call.line) > 0)
        => /\ call.snippets = SortSnippets(Candidates)
           /\ \A k \in 1..Len(call.edits) :
                /\ \E j \in 1..Len(call.snippets) :
                     call.edits[k] = MakeEdit(call.snippets[j], call.line, call.character)
                /\ k > 1 => EditPosition(k - 1) < EditPosition(k))
  /\ [][(call.pc = "checking" /\ sniphubItems' # sniphubItems) => call' = call]_vars

\* C19 witness: a call has returned edits after a context check that
\* resolved on a catalog other than the one the call started on.
C19_Witness ==
  /\ call.pc = "done" /\ call.moved /\ call.answered >= 1
  /\ Len(call.returned) >= 1

====
